---- MODULE Spec2Model ----
(***************************************************************************)
(* A model of python/geometry.py: the scene descriptors, the accumulator   *)
(* based flattening of a renderable object into a three.js document, the   *)
(* numpy array packer and the viewer command envelope.                     *)
(*                                                                         *)
(* Python values are tagged pairs <<tag, payload>>, so that two values of  *)
(* different Python types are comparable (and different).  Python objects  *)
(* with identity that the code shares or mutates live in heaps: elems (the *)
(* descriptors), lists (the path lists), and, inside one call, dicts (the  *)
(* accumulators).                                                          *)
(***************************************************************************)
EXTENDS Integers, Sequences, FiniteSets, TLC

VARIABLES elems, lists, cmds, result, outcomes

vars == <<elems, lists, cmds, result, outcomes>>

(***************************************************************************)
(* Bounds of the model.                                                    *)
(***************************************************************************)
MaxDim == 3
MaxCmds == 2
MaxPathLen == 1
MaxCalls == 2
MaxRank == 3

(***************************************************************************)
(* Python values.                                                          *)
(***************************************************************************)
Str(s) == <<"str", s>>
Num(n) == <<"num", n>>
Float(s) == <<"float", s>>
Bool(b) == <<"bool", b>>
None == <<"none", 0>>
Ref(i) == <<"ref", i>>
Uuid(n) == <<"uuid", n>>
Dict(f) == <<"dict", f>>
List(s) == <<"list", s>>
Bytes(n) == <<"bytes", n>>

Tag(v) == v[1]
Val(v) == v[2]

EmptyDict == [k \in {} |-> None]

\* dict.update: the entries of other override those of data
Update(data, other) == other @@ data

\* the outcome of a call: the program state after it, the value returned, and
\* the exception raised ("" when the call returns)
NoErr == ""
Return(w, v) == [w |-> w, ret |-> v, err |-> NoErr]
Raise(w, e) == [w |-> w, ret |-> None, err |-> e]

(***************************************************************************)
(* The array packer.                                                       *)
(***************************************************************************)
ErrRank == "ValueError: I can only pack 1- or 2-dimensional numpy arrays"
ErrDtype == "ValueError: Unsupported datatype"
ErrAttr == "AttributeError: no attribute serialize_in_object"

NdArray(dtype, shape) == <<"ndarray", [dtype |-> dtype, shape |-> shape]>>

ndim(array) == Len(Val(array).shape)

RECURSIVE Product(_)
Product(s) == IF s = <<>> THEN 1 ELSE Head(s) * Product(Tail(s))

\* the bytes of one element of each numpy dtype of the model
ItemBytes(dtype) ==
    CASE dtype = "uint8" -> 1
      [] dtype \in {"int32", "uint32", "float32"} -> 4
      [] OTHER -> 8

\* ndarray.tobytes(): the raw memory of the array, size * itemsize bytes
tobytes(array) == Bytes(Product(Val(array).shape) * ItemBytes(Val(array).dtype))

\* umsgpack.Ext(type, data)
Ext(code, data) == <<"ext", [type |-> code, data |-> data]>>

\* a variant of item_size that reads the second axis of a rank-2 array
item_size_second_axis(array) ==
    IF ndim(array) = 1 THEN [err |-> NoErr, v |-> 1]
    ELSE IF ndim(array) = 2 THEN [err |-> NoErr, v |-> Val(array).shape[2]]
    ELSE [err |-> ErrRank, v |-> 0]

item_size(array) ==
    IF ndim(array) = 1 THEN [err |-> NoErr, v |-> 1]
    ELSE IF ndim(array) = 2 THEN [err |-> NoErr, v |-> Val(array).shape[1]]
    ELSE [err |-> ErrRank, v |-> 0]

threejs_type(dtype) ==
    IF dtype = "uint8" THEN [err |-> NoErr, typename |-> "Uint8Array", extcode |-> 18]
    ELSE IF dtype = "int32" THEN [err |-> NoErr, typename |-> "Int32Array", extcode |-> 21]
    ELSE IF dtype = "uint32" THEN [err |-> NoErr, typename |-> "Uint32Array", extcode |-> 22]
    ELSE IF dtype = "float32" THEN [err |-> NoErr, typename |-> "Float32Array", extcode |-> 23]
    ELSE [err |-> ErrDtype, typename |-> "", extcode |-> 0]

\* pack_numpy_array(x): threejs_type is called first, item_size when the
\* dict literal is built.  It has no effect on the program state.
PackedBlock(w, x, t, s) ==
    IF t.err # NoErr THEN Raise(w, t.err)
    ELSE IF s.err # NoErr THEN Raise(w, s.err)
    ELSE Return(w, Dict([itemSize |-> Num(s.v),
                         type |-> Str(t.typename),
                         array |-> Ext(t.extcode, tobytes(x)),
                         normalized |-> Bool(FALSE)]))

pack_numpy_array(w, x) == PackedBlock(w, x, threejs_type(Val(x).dtype), item_size(x))

(***************************************************************************)
(* The scene elements.  A descriptor is [cls, uuid, attrs]; elems[i] is    *)
(* the descriptor with identity i and Ref(i) a reference to it.  The uuid  *)
(* of a descriptor is the string uuid.uuid1() gave its constructor, a      *)
(* value no other constructor call gets.                                   *)
(***************************************************************************)
Element(cls, n, attrs) == [cls |-> cls, uuid |-> Uuid(n), attrs |-> attrs]

Box(n, lengths) == Element("Box", n, [lengths |-> List(lengths)])

DefaultColor == 16777215

\* cls is one of the four subclasses, which differ in _type alone
MeshMaterial(cls, n, color, map, kwargs) ==
    Element(cls, n, [color |-> Num(color), reflectivity |-> Float("0.5"),
                     map |-> map, properties |-> Dict(kwargs)])

PngImage(n, data) == Element("PngImage", n, [data |-> data])

GenericTexture(n, properties) ==
    Element("GenericTexture", n, [properties |-> Dict(properties)])

DefaultWrap == 1001

ImageTexture(n, image, kwargs) ==
    Element("ImageTexture", n,
            [image |-> image,
             wrap |-> List(<<Num(DefaultWrap), Num(DefaultWrap)>>),
             repeat |-> List(<<Num(1), Num(1)>>),
             properties |-> Dict(kwargs)])

GenericMaterial(n, properties) ==
    Element("GenericMaterial", n, [properties |-> Dict(properties)])

ObjMeshGeometry(n, contents) == Element("ObjMeshGeometry", n, [contents |-> contents])

PointsGeometry(n, points, color) ==
    Element("PointsGeometry", n, [points |-> points, color |-> color])

PointsMaterial(n) ==
    Element("PointsMaterial", n, [size |-> Float("0.001"), color |-> Num(DefaultColor)])

\* Mesh and Points, the two subclasses of Object
Object(cls, n, geometry, material) ==
    Element(cls, n, [geometry |-> geometry, material |-> material])

MeshMaterialClasses ==
    {"MeshBasicMaterial", "MeshPhongMaterial", "MeshLambertMaterial", "MeshToonMaterial"}
GeometryClasses == {"Box", "ObjMeshGeometry", "PointsGeometry"}
MaterialClasses == MeshMaterialClasses \cup {"PointsMaterial", "GenericMaterial"}
TextureClasses == {"GenericTexture", "ImageTexture"}
ImageClasses == {"PngImage"}
ObjectClasses == {"Mesh", "Points"}

\* the class attribute `field` of the four reference categories
FieldOf(cls) ==
    CASE cls \in GeometryClasses -> "geometries"
      [] cls \in MaterialClasses -> "materials"
      [] cls \in TextureClasses -> "textures"
      [] cls \in ImageClasses -> "images"

\* the class attribute `_type`
TypeOf(cls) == cls

(***************************************************************************)
(* The program state inside one call: w.elems and w.lists are the heaps of *)
(* the state, w.dicts the accumulators (the `data` dicts) allocated by the *)
(* call, w.log the appends made to them, in order.                         *)
(***************************************************************************)
World(el, ls) == [elems |-> el, lists |-> ls, dicts |-> <<>>, log |-> <<>>]

IsErr(r) == r.err # NoErr

\* object_data.setdefault(field, [])
setdefault(w, d, field) ==
    IF field \in DOMAIN w.dicts[d] THEN w
    ELSE [w EXCEPT !.dicts[d] = (field :> List(<<>>)) @@ @]

\* list.append on object_data[field]
AppendRecord(w, d, field, e, rec) ==
    [w EXCEPT !.dicts[d][field] = List(Append(Val(@), rec)),
              !.log = Append(@, [dict |-> d, field |-> field, elem |-> e, rec |-> rec])]

RECURSIVE serialize_in_object(_, _, _)

\* x.serialize_in_object(object_data) for a Python value x: only a scene
\* element has the method
CallSerializeInObject(w, x, d) ==
    IF Tag(x) = "ref" THEN serialize_in_object(w, Val(x), d) ELSE Raise(w, ErrAttr)

\* data[key] = <the identifier that call r returned>; return data
SetKey(r, data, key) ==
    IF IsErr(r) THEN r ELSE Return(r.w, Dict(Update(data, key :> r.ret)))

BoxSerialize(w, e, d) ==
    LET self == w.elems[e]
    IN  Return(w, Dict([uuid |-> self.uuid,
                        type |-> Str("BoxGeometry"),
                        width |-> Val(self.attrs.lengths)[1],
                        height |-> Val(self.attrs.lengths)[2],
                        depth |-> Val(self.attrs.lengths)[3]]))

MeshMaterialSerialize(w, e, d) ==
    LET self == w.elems[e]
        data == Update([uuid |-> self.uuid,
                        type |-> Str(TypeOf(self.cls)),
                        color |-> self.attrs.color,
                        reflectivity |-> self.attrs.reflectivity],
                       Val(self.attrs.properties))
    IN  IF self.attrs.map # None
        THEN SetKey(CallSerializeInObject(w, self.attrs.map, d), data, "map")
        ELSE Return(w, Dict(data))

\* base64.b64encode(data).decode('ascii') behind the data-URI prefix
DataUrl(data) == <<"data:image/png;base64", data>>

PngImageSerialize(w, e, d) ==
    LET self == w.elems[e]
    IN  Return(w, Dict([uuid |-> self.uuid, url |-> DataUrl(self.attrs.data)]))

\* data[key] = <the identifier that call r returned>, on self.properties
\* itself
SetKeyInPlace(r, e, data, key) ==
    IF IsErr(r) THEN r
    ELSE Return([r.w EXCEPT !.elems[e].attrs.properties = Dict(Update(data, key :> r.ret))],
                Dict(Update(data, key :> r.ret)))

\* a variant that works on self.properties itself, not on a copy of it
GenericTextureSerializeInPlace(w, e, d) ==
    LET self == w.elems[e]
        data == Update(Val(self.attrs.properties), [uuid |-> self.uuid])
        w0 == [w EXCEPT !.elems[e].attrs.properties = Dict(data)]
    IN  IF "image" \in DOMAIN data
        THEN SetKeyInPlace(CallSerializeInObject(w0, data["image"], d), e, data, "image")
        ELSE Return(w0, Dict(data))

GenericTextureSerialize(w, e, d) ==
    LET self == w.elems[e]
        data == Update([uuid |-> self.uuid], Val(self.attrs.properties))
    IN  IF "image" \in DOMAIN data
        THEN SetKey(CallSerializeInObject(w, data["image"], d), data, "image")
        ELSE Return(w, Dict(data))

\* the record of an image texture, once self.image.serialize_in_object
\* has returned (call r)
ImageTextureRecord(r, self) ==
    IF IsErr(r) THEN r
    ELSE Return(r.w, Dict(Update([uuid |-> self.uuid,
                                  wrap |-> self.attrs.wrap,
                                  repeat |-> self.attrs.repeat,
                                  image |-> r.ret],
                                 Val(self.attrs.properties))))

ImageTextureSerialize(w, e, d) ==
    ImageTextureRecord(CallSerializeInObject(w, w.elems[e].attrs.image, d), w.elems[e])

\* a variant that works on self.properties itself, not on a copy of it
GenericMaterialSerializeInPlace(w, e, d) ==
    LET self == w.elems[e]
        data == Update(Val(self.attrs.properties), [uuid |-> self.uuid])
        w0 == [w EXCEPT !.elems[e].attrs.properties = Dict(data)]
    IN  IF "map" \in DOMAIN data
        THEN SetKeyInPlace(CallSerializeInObject(w0, data["map"], d), e, data, "map")
        ELSE Return(w0, Dict(data))

\* a variant that emits the property mapping as it is, the texture in it
\* not flattened
GenericMaterialSerializeShallow(w, e, d) ==
    Return(w, Dict(Update([uuid |-> w.elems[e].uuid], Val(w.elems[e].attrs.properties))))

GenericMaterialSerialize(w, e, d) ==
    LET self == w.elems[e]
        data == Update([uuid |-> self.uuid], Val(self.attrs.properties))
    IN  IF "map" \in DOMAIN data
        THEN SetKey(CallSerializeInObject(w, data["map"], d), data, "map")
        ELSE Return(w, Dict(data))

ObjMeshGeometrySerialize(w, e, d) ==
    LET self == w.elems[e]
    IN  Return(w, Dict([type |-> Str("_meshfile"),
                        uuid |-> self.uuid,
                        format |-> Str("obj"),
                        data |-> self.attrs.contents]))

\* the record of a point cloud with the packed attributes attrs
PointsRecord(w, self, attrs) ==
    Return(w, Dict([uuid |-> self.uuid,
                    type |-> Str("BufferGeometry"),
                    data |-> Dict([attributes |-> Dict(attrs)])]))

\* attrs["color"] = pack_numpy_array(self.color), which is call c
PointsWithColor(c, self, attrs) ==
    IF IsErr(c) THEN c ELSE PointsRecord(c.w, self, Update(attrs, [color |-> c.ret]))

\* attrs = {"position": pack_numpy_array(self.points)}, which is call p
PointsWithPosition(p, self) ==
    IF IsErr(p) THEN p
    ELSE IF self.attrs.color # None
    THEN PointsWithColor(pack_numpy_array(p.w, self.attrs.color), self, [position |-> p.ret])
    ELSE PointsRecord(p.w, self, [position |-> p.ret])

PointsGeometrySerialize(w, e, d) ==
    PointsWithPosition(pack_numpy_array(w, w.elems[e].attrs.points), w.elems[e])

PointsMaterialSerialize(w, e, d) ==
    LET self == w.elems[e]
    IN  Return(w, Dict([uuid |-> self.uuid,
                        type |-> Str("PointsMaterial"),
                        color |-> self.attrs.color,
                        size |-> self.attrs.size,
                        vertexColors |-> Num(2)]))

\* self.serialize(object_data): the method of the element's class
Serialize(w, e, d) ==
    LET cls == w.elems[e].cls
    IN  CASE cls = "Box" -> BoxSerialize(w, e, d)
          [] cls \in MeshMaterialClasses -> MeshMaterialSerialize(w, e, d)
          [] cls = "PngImage" -> PngImageSerialize(w, e, d)
          [] cls = "GenericTexture" -> GenericTextureSerialize(w, e, d)
          [] cls = "ImageTexture" -> ImageTextureSerialize(w, e, d)
          [] cls = "GenericMaterial" -> GenericMaterialSerialize(w, e, d)
          [] cls = "ObjMeshGeometry" -> ObjMeshGeometrySerialize(w, e, d)
          [] cls = "PointsGeometry" -> PointsGeometrySerialize(w, e, d)
          [] cls = "PointsMaterial" -> PointsMaterialSerialize(w, e, d)

\* .append(<the record that call r returned>); return self.uuid
AppendReturned(r, e, d, field) ==
    IF IsErr(r) THEN r
    ELSE Return(AppendRecord(r.w, d, field, e, r.ret), r.w.elems[e].uuid)

\* ReferenceSceneElement.serialize_in_object: setdefault is evaluated first,
\* then self.serialize(object_data), then the append
serialize_in_object(w, e, d) ==
    LET field == FieldOf(w.elems[e].cls)
    IN  AppendReturned(Serialize(setdefault(w, d, field), e, d), e, d, field)

(***************************************************************************)
(* Object.serialize.  The dict literal is a new dict object on each call;  *)
(* the call returns that object, DictRef(d) for the dict w.dicts[d].       *)
(***************************************************************************)
DictRef(d) == <<"dictref", d>>
ListRef(l) == <<"listref", l>>
CmdRef(c) == <<"cmdref", c>>

\* a variant in which `data` is one dict shared by the calls, as a class
\* attribute or a default argument would be
AllocDataShared(w, data) ==
    IF w.dicts = <<>>
    THEN [w |-> [w EXCEPT !.dicts = Append(@, data)], d |-> 1]
    ELSE [w |-> [w EXCEPT !.dicts[1] = [k \in {"metadata", "object"} |-> data[k]] @@ @],
          d |-> 1]

\* data = {...}: a fresh dict
AllocData(w, data) ==
    [w |-> [w EXCEPT !.dicts = Append(@, data)], d |-> Len(w.dicts) + 1]

\* the dict literal of Object.serialize
ObjectData(w, self) ==
    [metadata |-> Dict([version |-> Float("4.5"), type |-> Str("Object")]),
     geometries |-> List(<<>>),
     materials |-> List(<<>>),
     object |-> Dict([uuid |-> self.uuid,
                      type |-> Str(TypeOf(self.cls)),
                      geometry |-> w.elems[Val(self.attrs.geometry)].uuid,
                      material |-> w.elems[Val(self.attrs.material)].uuid])]

\* return data, once the last serialize_in_object has returned (call r)
ReturnData(r, d) == IF IsErr(r) THEN r ELSE Return(r.w, DictRef(d))

\* self.material.serialize_in_object(data), once that of the geometry has
\* returned (call g)
ThenMaterial(g, self, d) ==
    IF IsErr(g) THEN g
    ELSE ReturnData(CallSerializeInObject(g.w, self.attrs.material, d), d)

\* a variant in which the two serialize_in_object lines are swapped
ThenGeometry(m, self, d) ==
    IF IsErr(m) THEN m
    ELSE ReturnData(CallSerializeInObject(m.w, self.attrs.geometry, d), d)

FromMaterialFirst(a, self) ==
    ThenGeometry(CallSerializeInObject(a.w, self.attrs.material, a.d), self, a.d)

\* self.geometry.serialize_in_object(data), in the dict just allocated
FromGeometry(a, self) ==
    ThenMaterial(CallSerializeInObject(a.w, self.attrs.geometry, a.d), self, a.d)


ObjectSerialize(w, o) == FromGeometry(AllocData(w, ObjectData(w, w.elems[o])), w.elems[o])

(***************************************************************************)
(* The commands and the message.  A command holds its path as a reference  *)
(* to a list object of the heap `lists`; the default value of the `path`   *)
(* parameter is one list object per __init__, made when the class is       *)
(* defined.                                                                *)
(***************************************************************************)
SetObjectDefaultPath == 1
SetTransformDefaultPath == 2

SetObject(object, path) ==
    [cls |-> "SetObject", object |-> object, position |-> None, quaternion |-> None,
     path |-> path]

SetTransform(position, quaternion, path) ==
    [cls |-> "SetTransform", object |-> None, position |-> position,
     quaternion |-> quaternion, path |-> path]

\* the record of a set_object command, once self.object.serialize() has
\* returned (call r)
SetObjectRecord(r, self) ==
    IF IsErr(r) THEN r
    ELSE Return(r.w, Dict([type |-> Str("set_object"),
                           object |-> r.ret,
                           path |-> self.path]))

SetObjectSerialize(w, self) == SetObjectRecord(ObjectSerialize(w, Val(self.object)), self)

SetTransformSerialize(w, self) ==
    Return(w, Dict([type |-> Str("set_transform"),
                    path |-> self.path,
                    position |-> self.position,
                    quaternion |-> self.quaternion]))

\* c.serialize() for a command c
CommandSerialize(w, c) ==
    IF c.cls = "SetObject" THEN SetObjectSerialize(w, c) ELSE SetTransformSerialize(w, c)

RECURSIVE SerializeAll(_, _, _)

\* a variant of the comprehension that leaves out the commands that raise
CollectSkipErrors(r, rest, done) ==
    IF IsErr(r) THEN SerializeAll(r.w, rest, done)
    ELSE SerializeAll(r.w, rest, Append(done, r.ret))

\* a variant of the comprehension that builds the list back to front
CollectReversed(r, rest, done) ==
    IF IsErr(r) THEN r ELSE SerializeAll(r.w, rest, <<r.ret>> \o done)

\* one step of the comprehension: the record that c.serialize() returned
\* (call r) is the next item, an exception ends the comprehension
Collect(r, rest, done) ==
    IF IsErr(r) THEN r ELSE SerializeAll(r.w, rest, Append(done, r.ret))

\* [c.serialize() for c in self.commands]
SerializeAll(w, commands, done) ==
    IF commands = <<>> THEN Return(w, List(done))
    ELSE Collect(CommandSerialize(w, Head(commands)), Tail(commands), done)

\* {"commands": <the list that the comprehension, call r, built>}
CommandsDocument(r) == IF IsErr(r) THEN r ELSE Return(r.w, Dict([commands |-> r.ret]))

ViewerMessageSerialize(w, commands) == CommandsDocument(SerializeAll(w, commands, <<>>))

\* umsgpack.packb(obj): the msgpack encoding of obj
packb(obj) == <<"msgpack", obj>>

\* umsgpack.packb(<the document that self.serialize(), call r, returned>)
Packed(r) == IF IsErr(r) THEN r ELSE Return(r.w, packb(r.ret))

ViewerMessagePack(w, commands) == Packed(ViewerMessageSerialize(w, commands))

(***************************************************************************)
(* The descriptors a caller has built.  Element 1 is an image, 2 a         *)
(* texture, 3 and 5 materials, 4 and 6 geometries, 7 and 8 renderable      *)
(* objects; object 7 pairs geometry 4 with material 3, object 8 pairs one  *)
(* of the two geometries with one of the two materials, so it may share    *)
(* elements with object 7.  The uuid of element i is Uuid(i).              *)
(***************************************************************************)
CallerUuid == Str("caller-chosen")

GoodPoints == NdArray("float32", <<3, 2>>)
GoodColor == NdArray("uint8", <<3, 2>>)
BadRank == NdArray("float32", <<2, 2, 2>>)
BadKind == NdArray("float64", <<3, 2>>)

Textures ==
    { GenericTexture(2, EmptyDict),
      GenericTexture(2, [image |-> Ref(1)]),
      GenericTexture(2, [image |-> Ref(1), uuid |-> CallerUuid]),
      ImageTexture(2, Ref(1), EmptyDict),
      ImageTexture(2, Ref(1), [uuid |-> CallerUuid]) }

Materials ==
    { MeshMaterial(cls, 3, DefaultColor, map, kwargs) :
        cls \in MeshMaterialClasses, map \in {None, Ref(2)},
        kwargs \in {EmptyDict, [uuid |-> CallerUuid], [transparent |-> Bool(TRUE)]} }
    \cup { PointsMaterial(3) }
    \cup { GenericMaterial(3, properties) :
             properties \in {EmptyDict, [map |-> Ref(2)], [uuid |-> CallerUuid],
                             [map |-> Ref(2), uuid |-> CallerUuid]} }

Geometries ==
    { Box(4, <<Num(1), Num(2), Num(3)>>),
      ObjMeshGeometry(4, Str("v 0 0 0")),
      PointsGeometry(4, GoodPoints, None),
      PointsGeometry(4, GoodPoints, GoodColor),
      PointsGeometry(4, BadRank, None),
      PointsGeometry(4, BadKind, GoodColor),
      PointsGeometry(4, GoodPoints, BadRank),
      PointsGeometry(4, GoodPoints, BadKind) }

ObjectIds == {7, 8}

Scene(tex, mat, geom, cls, g, m) ==
    << PngImage(1, Bytes(4)), tex, mat, geom, PointsMaterial(5),
       Box(6, <<Num(1), Num(1), Num(1)>>),
       Object(cls, 7, Ref(4), Ref(3)), Object("Mesh", 8, Ref(g), Ref(m)) >>

Scenes ==
    { Scene(tex, mat, geom, cls, gm[1], gm[2]) :
        tex \in Textures, mat \in Materials, geom \in Geometries,
        cls \in ObjectClasses, gm \in {<<4, 5>>, <<6, 3>>} }

\* the scenes of the message specification: fewer descriptors
MessageScenes ==
    { Scene(GenericTexture(2, [image |-> Ref(1)]), mat, geom, "Mesh", gm[1], gm[2]) :
        mat \in { GenericMaterial(3, [map |-> Ref(2)]),
                  MeshMaterial("MeshBasicMaterial", 3, DefaultColor, None, EmptyDict) },
        geom \in { Box(4, <<Num(1), Num(2), Num(3)>>),
                   PointsGeometry(4, GoodPoints, GoodColor),
                   PointsGeometry(4, BadRank, None),
                   PointsGeometry(4, GoodPoints, BadKind) },
        gm \in {<<4, 5>>, <<6, 3>>} }

(***************************************************************************)
(* The state: result is the outcome of the last call, with the dicts it    *)
(* returned and the appends it made; outcomes[o] the outcomes that the     *)
(* calls of Object.serialize on object o have had, in order.               *)
(***************************************************************************)
NoResult ==
    [op |-> "", arg |-> None, err |-> NoErr, val |-> None, dicts |-> <<>>, log |-> <<>>]

\* the outcome of call op(arg); what a call that raises has built is garbage
Outcome(op, arg, r) ==
    [op |-> op, arg |-> arg, err |-> r.err, val |-> r.ret,
     dicts |-> IF IsErr(r) THEN <<>> ELSE r.w.dicts, log |-> r.w.log]

\* the document a call of Object.serialize returned
DocumentOf(r) == IF IsErr(r) THEN None ELSE Dict(r.w.dicts[Val(r.ret)])

InitScene(S) ==
    /\ elems \in S
    /\ lists = <<<<>>, <<>>>>
    /\ cmds = <<>>
    /\ result = NoResult
    /\ outcomes = [o \in ObjectIds |-> <<>>]

\* o.serialize() for a renderable object o
\* the state after call r, which was op(arg)
Returns(op, arg, r) ==
    /\ elems' = r.w.elems
    /\ lists' = r.w.lists
    /\ result' = Outcome(op, arg, r)
    /\ outcomes' = IF op = "Object.serialize"
                   THEN [outcomes EXCEPT ![Val(arg)] =
                            Append(@, [err |-> r.err, doc |-> DocumentOf(r)])]
                   ELSE outcomes
    /\ UNCHANGED cmds

CallObjectSerialize(o) ==
    /\ Len(outcomes[o]) < MaxCalls
    /\ Returns("Object.serialize", Ref(o), ObjectSerialize(World(elems, lists), o))

Init == InitScene(Scenes)

Next == \E o \in ObjectIds : CallObjectSerialize(o)

Spec == Init /\ [][Next]_vars

(***************************************************************************)
(* The message specification: a caller constructs commands, with or       *)
(* without a path, appends to the path of a command, and serializes or     *)
(* packs the message of the commands constructed so far.                   *)
(***************************************************************************)
Segments == {Str("a")}
CallerPaths == {<<Str("camera")>>}
Positions == {List(<<Num(0), Num(0), Num(1)>>)}
Quaternions == {List(<<Num(0), Num(0), Num(0), Num(1)>>)}

\* SetObject(object) and SetObject(object, path)
NewSetObject(o, path) ==
    /\ Len(cmds) < MaxCmds
    /\ IF path = None
       THEN /\ cmds' = Append(cmds, SetObject(Ref(o), ListRef(SetObjectDefaultPath)))
            /\ lists' = lists
       ELSE /\ cmds' = Append(cmds, SetObject(Ref(o), ListRef(Len(lists) + 1)))
            /\ lists' = Append(lists, Val(path))
    /\ result' = [NoResult EXCEPT !.op = "SetObject", !.arg = path,
                                  !.val = CmdRef(Len(cmds'))]
    /\ UNCHANGED <<elems, outcomes>>

\* SetTransform(position, quaternion) and SetTransform(position, quaternion, path)
NewSetTransform(position, quaternion, path) ==
    /\ Len(cmds) < MaxCmds
    /\ IF path = None
       THEN /\ cmds' = Append(cmds, SetTransform(position, quaternion,
                                                 ListRef(SetTransformDefaultPath)))
            /\ lists' = lists
       ELSE /\ cmds' = Append(cmds, SetTransform(position, quaternion,
                                                 ListRef(Len(lists) + 1)))
            /\ lists' = Append(lists, Val(path))
    /\ result' = [NoResult EXCEPT !.op = "SetTransform", !.arg = path,
                                  !.val = CmdRef(Len(cmds'))]
    /\ UNCHANGED <<elems, outcomes>>

\* cmds[c].path.append(seg), by the caller that holds the command
PathAppend(c, seg) ==
    LET l == Val(cmds[c].path)
    IN  /\ Len(lists[l]) < MaxPathLen
        /\ lists' = [lists EXCEPT ![l] = Append(@, seg)]
        /\ result' = [NoResult EXCEPT !.op = "path.append", !.arg = CmdRef(c)]
        /\ UNCHANGED <<elems, cmds, outcomes>>

\* ViewerMessage(cmds).serialize()
CallMessageSerialize ==
    /\ cmds # <<>>
    /\ Returns("ViewerMessage.serialize", List(cmds),
            ViewerMessageSerialize(World(elems, lists), cmds))

\* ViewerMessage(cmds).pack()
CallMessagePack ==
    /\ cmds # <<>>
    /\ Returns("ViewerMessage.pack", List(cmds), ViewerMessagePack(World(elems, lists), cmds))

InitMsg == InitScene(MessageScenes)

NextMsg ==
    \/ \E o \in ObjectIds, path \in {None} \cup {List(p) : p \in CallerPaths} :
          NewSetObject(o, path)
    \/ \E position \in Positions, quaternion \in Quaternions,
          path \in {None} \cup {List(p) : p \in CallerPaths} :
          NewSetTransform(position, quaternion, path)
    \/ \E c \in 1..Len(cmds), seg \in Segments : PathAppend(c, seg)
    \/ CallMessageSerialize
    \/ CallMessagePack

SpecMsg == InitMsg /\ [][NextMsg]_vars

(***************************************************************************)
(* The packer specification: pack_numpy_array on every array of the        *)
(* bounds.                                                                 *)
(***************************************************************************)
Dtypes == {"uint8", "int32", "uint32", "float32", "float64", "int64"}

RECURSIVE Shapes(_)
Shapes(n) ==
    IF n = 0 THEN {<<>>}
    ELSE LET S == Shapes(n - 1)
         IN  S \cup {<<k>> \o s : k \in 1..MaxDim, s \in {t \in S : Len(t) = n - 1}}

Arrays == {NdArray(dtype, shape) : dtype \in Dtypes, shape \in Shapes(MaxRank)}

CallPackNumpyArray(x) ==
    /\ Returns("pack_numpy_array", x, pack_numpy_array(World(elems, lists), x))

InitPack == InitScene({Scene(GenericTexture(2, EmptyDict), PointsMaterial(3),
                             PointsGeometry(4, GoodPoints, None), "Points", 4, 3)})

NextPack == \E x \in Arrays : CallPackNumpyArray(x)

SpecPack == InitPack /\ [][NextPack]_vars


(***************************************************************************)
(* What the claims speak of, read off the state.                           *)
(***************************************************************************)
Categories == {"geometries", "materials", "textures", "images"}

\* the last call was op and it returned
Returned(op) == result.op = op /\ result.err = NoErr

\* the document the last call of Object.serialize returned
ResultDocument == result.dicts[Val(result.val)]

\* the records of a category list of a document, none when it has no such key
Records(doc, field) == IF field \in DOMAIN doc THEN Val(doc[field]) ELSE <<>>

\* the elements that the descriptor of element e refers to
Embedded(e) ==
    LET x == elems[e]
    IN  CASE x.cls \in ObjectClasses -> {Val(x.attrs.geometry), Val(x.attrs.material)}
          [] x.cls \in MeshMaterialClasses ->
                IF x.attrs.map = None THEN {} ELSE {Val(x.attrs.map)}
          [] x.cls = "GenericMaterial" ->
                IF "map" \in DOMAIN Val(x.attrs.properties)
                THEN {Val(Val(x.attrs.properties)["map"])} ELSE {}
          [] x.cls = "GenericTexture" ->
                IF "image" \in DOMAIN Val(x.attrs.properties)
                THEN {Val(Val(x.attrs.properties)["image"])} ELSE {}
          [] x.cls = "ImageTexture" -> {Val(x.attrs.image)}
          [] OTHER -> {}

\* the geometry and the material subtree of object o
Subtree(o) ==
    LET a == Embedded(o)
        b == UNION {Embedded(e) : e \in a}
        c == UNION {Embedded(e) : e \in b}
    IN  a \cup b \cup c

GeometryOf(o) == Val(elems[o].attrs.geometry)
MaterialOf(o) == Val(elems[o].attrs.material)

\* the material of o is a generic material that embeds a texture that
\* embeds an image
GenericChain(o) ==
    /\ elems[MaterialOf(o)].cls = "GenericMaterial"
    /\ \E t \in Embedded(MaterialOf(o)) :
          /\ elems[t].cls \in TextureClasses
          /\ \E i \in Embedded(t) : elems[i].cls \in ImageClasses

TextureOf(o) == CHOOSE t \in Embedded(MaterialOf(o)) : TRUE
ImageOf(o) == CHOOSE i \in Embedded(TextureOf(o)) : TRUE

\* C1 as the spec states it: for a generic material that embeds a texture
\* that embeds an image, the document returned by Object.serialize has one
\* material record, whose map is the identifier of the texture, and its
\* top-level keys are metadata, geometries, materials and object alone: no
\* textures list, no images list.
C1_NotHoisted ==
    \A o \in ObjectIds :
        (Returned("Object.serialize") /\ result.arg = Ref(o) /\ GenericChain(o)) =>
            /\ Len(Records(ResultDocument, "materials")) = 1
            /\ Val(Records(ResultDocument, "materials")[1])["map"] = elems[TextureOf(o)].uuid
            /\ DOMAIN ResultDocument = {"metadata", "geometries", "materials", "object"}

\* C1 amended: for a generic material that embeds a texture that embeds an
\* image, the document returned by Object.serialize has one material record,
\* whose map is the identifier of the texture; the texture record and the
\* image record are hoisted: the top-level keys are metadata, geometries,
\* materials, object, textures and images, and the textures list and the
\* images list hold one record each, the texture's (its image field is the
\* identifier of the image) and the image's.
C1_Hoisted ==
    \A o \in ObjectIds :
        (Returned("Object.serialize") /\ result.arg = Ref(o) /\ GenericChain(o)) =>
            /\ Len(Records(ResultDocument, "materials")) = 1
            /\ Val(Records(ResultDocument, "materials")[1])["map"] = elems[TextureOf(o)].uuid
            /\ DOMAIN ResultDocument =
                   {"metadata", "geometries", "materials", "object", "textures", "images"}
            /\ Len(Records(ResultDocument, "textures")) = 1
            /\ Val(Records(ResultDocument, "textures")[1])["image"] = elems[ImageOf(o)].uuid
            /\ Len(Records(ResultDocument, "images")) = 1
            /\ Val(Records(ResultDocument, "images")[1])["uuid"] = elems[ImageOf(o)].uuid

C1_Witness ==
    \E o \in ObjectIds :
        Returned("Object.serialize") /\ result.arg = Ref(o) /\ GenericChain(o)

\* the number of records of a list whose uuid field is id
CountUuid(records, id) ==
    Cardinality({k \in 1..Len(records) :
                    "uuid" \in DOMAIN Val(records[k]) /\ Val(records[k])["uuid"] = id})

\* C2: in the document returned by Object.serialize, every identifier written
\* as a reference (object.geometry, object.material, the map of a material
\* record, the image of a texture record) is the uuid field of exactly one
\* record of the category list of the referenced element.
C2_ReferentialIntegrity ==
    Returned("Object.serialize") =>
        /\ CountUuid(Records(ResultDocument, "geometries"),
                     Val(ResultDocument["object"])["geometry"]) = 1
        /\ CountUuid(Records(ResultDocument, "materials"),
                     Val(ResultDocument["object"])["material"]) = 1
        /\ \A k \in 1..Len(Records(ResultDocument, "materials")) :
              "map" \in DOMAIN Val(Records(ResultDocument, "materials")[k]) =>
                  CountUuid(Records(ResultDocument, "textures"),
                            Val(Records(ResultDocument, "materials")[k])["map"]) = 1
        /\ \A k \in 1..Len(Records(ResultDocument, "textures")) :
              "image" \in DOMAIN Val(Records(ResultDocument, "textures")[k]) =>
                  CountUuid(Records(ResultDocument, "images"),
                            Val(Records(ResultDocument, "textures")[k])["image"]) = 1

SupportedDtypes == {"uint8", "int32", "uint32", "float32"}

Unsupported(x) == Val(x).dtype \notin SupportedDtypes \/ ndim(x) \notin {1, 2}

\* the arrays that the composition of object o reaches, in order
ArraysOf(o) ==
    LET g == elems[GeometryOf(o)]
    IN  IF g.cls # "PointsGeometry" THEN <<>>
        ELSE IF g.attrs.color = None THEN <<g.attrs.points>>
        ELSE <<g.attrs.points, g.attrs.color>>

Fails(o) == \E k \in 1..Len(ArraysOf(o)) : Unsupported(ArraysOf(o)[k])

\* the error of the first unsupported array that the composition of o reaches
ErrorOf(o) ==
    LET k == CHOOSE i \in 1..Len(ArraysOf(o)) :
                /\ Unsupported(ArraysOf(o)[i])
                /\ \A j \in 1..(i - 1) : ~Unsupported(ArraysOf(o)[j])
    IN  IF Val(ArraysOf(o)[k]).dtype \notin SupportedDtypes THEN ErrDtype ELSE ErrRank

\* the set_object commands of a list whose object reaches an unsupported array
Failing(commands) ==
    {i \in 1..Len(commands) :
        commands[i].cls = "SetObject" /\ Fails(Val(commands[i].object))}

Min(S) == CHOOSE i \in S : \A j \in S : i <= j

\* C3: when the composition of an object reaches an array of unsupported rank
\* or kind, Object.serialize raises the error of that array and returns no
\* document; ViewerMessage.serialize and pack on a list that holds a command
\* of such an object raise it too and return no message, whatever commands
\* come before it in the list.
C3_ErrorAborts ==
    /\ \A o \in ObjectIds :
          Fails(o) =>
              /\ ObjectSerialize(World(elems, lists), o).err = ErrorOf(o)
              /\ ObjectSerialize(World(elems, lists), o).ret = None
    /\ (result.op \in {"ViewerMessage.serialize", "ViewerMessage.pack"}
           /\ Failing(Val(result.arg)) # {}) =>
              /\ result.err = ErrorOf(Val(Val(result.arg)[Min(Failing(Val(result.arg)))].object))
              /\ result.val = None
              /\ result.dicts = <<>>

\* a message whose second command fails after its first command serialized
C3_Witness ==
    /\ result.op = "ViewerMessage.serialize"
    /\ Failing(Val(result.arg)) = {2}
    /\ Val(result.arg)[1].cls = "SetObject"
    /\ result.err = ErrRank

\* the document of a message: what serialize returned, what pack encoded
MessageDocument ==
    IF result.op = "ViewerMessage.pack" THEN Val(Val(result.val)) ELSE Val(result.val)

MessageRecords == Val(MessageDocument["commands"])

MessageReturned == Returned("ViewerMessage.serialize") \/ Returned("ViewerMessage.pack")

SetObjects == {i \in 1..Len(MessageRecords) : Val(MessageRecords[i])["type"] = Str("set_object")}

\* the accumulator that the record of command i refers to, and its object
DataOf(i) == Val(Val(MessageRecords[i])["object"])
ObjectOfCommand(i) == Val(Val(result.arg)[i].object)

\* C4: in a message, the documents of two set_object commands are two
\* accumulators, and the document of each command holds, in each category
\* list, one record for each element of the geometry and material subtree of
\* its own object and nothing else: every record appended to it is the record
\* of an element of that subtree.
C4_FreshAccumulator ==
    MessageReturned =>
        /\ \A i, j \in SetObjects : i # j => DataOf(i) # DataOf(j)
        /\ \A i \in SetObjects : \A f \in Categories :
              Len(Records(result.dicts[DataOf(i)], f)) =
                  Cardinality({e \in Subtree(ObjectOfCommand(i)) : FieldOf(elems[e].cls) = f})
        /\ \A i \in SetObjects : \A k \in 1..Len(result.log) :
              result.log[k].dict = DataOf(i) =>
                  result.log[k].elem \in Subtree(ObjectOfCommand(i))
        /\ \A i \in SetObjects : \A f \in Categories :
              \A n \in 1..Len(Records(result.dicts[DataOf(i)], f)) :
                  \E k \in 1..Len(result.log) :
                      /\ result.log[k].dict = DataOf(i)
                      /\ result.log[k].field = f
                      /\ result.log[k].rec = Records(result.dicts[DataOf(i)], f)[n]

\* a message of two set_object commands of two objects that share an element
C4_Witness ==
    /\ MessageReturned
    /\ SetObjects = {1, 2}
    /\ ObjectOfCommand(1) # ObjectOfCommand(2)
    /\ Subtree(ObjectOfCommand(1)) \cap Subtree(ObjectOfCommand(2)) # {}

\* C5: the calls of Object.serialize on one object all have the same outcome:
\* the same document, identifiers and list lengths included, whatever calls on
\* other objects ran between them.
C5_Repeatable ==
    \A o \in ObjectIds : \A i, j \in 1..Len(outcomes[o]) : outcomes[o][i] = outcomes[o][j]

\* two calls on an object with a texture, with a call on the other object
C5_Witness ==
    \E o \in ObjectIds :
        /\ Len(outcomes[o]) >= 2
        /\ outcomes[o][1].err = NoErr
        /\ GenericChain(o)
        /\ \E p \in ObjectIds \ {o} : Len(outcomes[p]) >= 1

\* C6: ViewerMessage.serialize returns {commands: [...]} with one record for
\* each command, in the order of the list; the record of a set_transform
\* command is exactly its type, path, position and quaternion, the record of
\* a set_object command exactly its type, its path and, under object, the
\* document of its object.
C6_MessageShape ==
    Returned("ViewerMessage.serialize") =>
        /\ DOMAIN MessageDocument = {"commands"}
        /\ Len(MessageRecords) = Len(Val(result.arg))
        /\ \A i \in 1..Len(Val(result.arg)) :
              IF Val(result.arg)[i].cls = "SetTransform"
              THEN Val(MessageRecords[i]) =
                       [type |-> Str("set_transform"),
                        path |-> Val(result.arg)[i].path,
                        position |-> Val(result.arg)[i].position,
                        quaternion |-> Val(result.arg)[i].quaternion]
              ELSE /\ DOMAIN Val(MessageRecords[i]) = {"type", "path", "object"}
                   /\ Val(MessageRecords[i])["type"] = Str("set_object")
                   /\ Val(MessageRecords[i])["path"] = Val(result.arg)[i].path
                   /\ Dict(result.dicts[DataOf(i)]) =
                          DocumentOf(ObjectSerialize(World(elems, lists), ObjectOfCommand(i)))

\* a message of a set_object command and a set_transform command
C6_Witness ==
    /\ Returned("ViewerMessage.serialize")
    /\ Len(Val(result.arg)) = 2
    /\ Val(result.arg)[1].cls = "SetObject"
    /\ Val(result.arg)[2].cls = "SetTransform"

\* C7: a command constructed without a path has an empty path, whatever was
\* done to the path of the commands constructed before it.
C7_DefaultPathEmpty ==
    (result.op \in {"SetObject", "SetTransform"} /\ result.arg = None) =>
        lists[Val(cmds[Val(result.val)].path)] = <<>>

\* the type name and the extension code of each supported kind
KindTable ==
    [uint8 |-> <<"Uint8Array", 18>>, int32 |-> <<"Int32Array", 21>>,
     uint32 |-> <<"Uint32Array", 22>>, float32 |-> <<"Float32Array", 23>>]

\* C8: for an array of a supported kind and of rank 1 or 2, pack_numpy_array
\* returns a block whose itemSize is 1 for rank 1 and the size of the first
\* axis for rank 2, whose type and extension code are those of the kind, and
\* whose normalized is false.
C8_PackedBlock ==
    (result.op = "pack_numpy_array" /\ Val(result.arg).dtype \in SupportedDtypes
        /\ ndim(result.arg) \in {1, 2}) =>
            /\ result.err = NoErr
            /\ Val(result.val)["itemSize"] =
                   Num(IF ndim(result.arg) = 1 THEN 1 ELSE Val(result.arg).shape[1])
            /\ Val(result.val)["type"] = Str(KindTable[Val(result.arg).dtype][1])
            /\ Tag(Val(result.val)["array"]) = "ext"
            /\ Val(Val(result.val)["array"]).type = KindTable[Val(result.arg).dtype][2]
            /\ Val(result.val)["normalized"] = Bool(FALSE)
            /\ DOMAIN Val(result.val) = {"itemSize", "type", "array", "normalized"}

\* a rank-2 array whose two axes differ
C8_Witness ==
    /\ Returned("pack_numpy_array")
    /\ result.arg = NdArray("float32", <<3, 2>>)

\* the records of the appends of a log to category list f of accumulator d
AppendedTo(log, d, f) ==
    LET Here(x) == x.dict = d /\ x.field = f
        sel == SelectSeq(log, Here)
    IN  [k \in 1..Len(sel) |-> sel[k].rec]

\* C9: in one composition the record of the geometry is appended first, the
\* record of an embedded element before the record of the element that embeds
\* it, every element of the geometry and material subtree once, and each
\* category list holds its records in the order of the appends.
C9_AppendOrder ==
    Returned("Object.serialize") =>
        /\ Len(result.log) >= 1
        /\ result.log[1].elem = GeometryOf(Val(result.arg))
        /\ \A i, j \in 1..Len(result.log) :
              result.log[i].elem \in Embedded(result.log[j].elem) => i < j
        /\ {result.log[k].elem : k \in 1..Len(result.log)} = Subtree(Val(result.arg))
        /\ Len(result.log) = Cardinality(Subtree(Val(result.arg)))
        /\ \A f \in Categories :
              Records(ResultDocument, f) = AppendedTo(result.log, Val(result.val), f)

\* a composition whose material embeds a texture that embeds an image
C9_Witness ==
    /\ Returned("Object.serialize")
    /\ Len(result.log) = 4
    /\ Embedded(TextureOf(Val(result.arg))) # {}

\* C10: no call changes a descriptor: the property mappings, the embedded
\* elements in them, the identifiers and the other fields of all elements
\* are after every call what they were before it.
C10_DescriptorsUnchanged == [][elems' = elems]_vars

\* a composition has flattened a generic material and a generic texture, and
\* their property mappings still hold the texture and the image
C10_Witness ==
    \E o \in ObjectIds :
        /\ Returned("Object.serialize") /\ result.arg = Ref(o) /\ GenericChain(o)
        /\ elems[TextureOf(o)].cls = "GenericTexture"
        /\ Tag(Val(elems[MaterialOf(o)].attrs.properties)["map"]) = "ref"
        /\ Tag(Val(elems[TextureOf(o)].attrs.properties)["image"]) = "ref"
        /\ "uuid" \notin DOMAIN Val(elems[MaterialOf(o)].attrs.properties)


====
